---- MODULE Spec2Model ----
(***************************************************************************)
(* marclite: conversion of bibliographic records between binary MARC,      *)
(* MARCXML and the mnemonic-text (MRK) representation.                     *)
(*                                                                         *)
(* A Python str / bytes value is a sequence of one-character strings.      *)
(* The byte 0x1D (record terminator) is written "GS"; a byte that is not   *)
(* valid UTF-8 is written "INV".                                           *)
(***************************************************************************)
EXTENDS Integers, Sequences, FiniteSets, TLC

VARIABLES
    pc,         \* position of the running call
    inRecords,  \* the Record list handed to write_records
    text,       \* content of the mnemonic-text file
    blocks,     \* parse_mrk_records: blocks not yet parsed
    acc,        \* list(...) under construction in read_records
    result,     \* the ReadResult returned by read_records (NoResult before)
    raised,     \* the exception that left the call ("none" when none did)
    attempts,   \* what the MARCReader yields, in stream order
    idx,        \* read_records (mrc): enumerate index of the last attempt;
                \* cmd_merge: number of inputs read so far
    records,    \* read_records: local `records`
    warnings,   \* read_records, cmd_merge: local `warnings`
    dropped,    \* read_records, cmd_merge: local `dropped`
    name,       \* detect_format: path.name
    content,    \* detect_format: the bytes of the file at path
    opened,     \* detect_format: whether the file was opened and read
    detected,   \* detect_format: the format tag returned ("" before)
    every,      \* cmd_split: args.every
    argTo,      \* args.to ("" when absent)
    start,      \* cmd_split: the loop's position in range(0, total, every)
    files,      \* cmd_split: the files written so far, in order
    events,     \* the events emitted so far
    ret,        \* the command's return value (-1 before it returns)
    inputs,     \* cmd_merge: what read_records gives for each of args.inputs
    all_records, \* cmd_merge: local `all_records`
    output,     \* the file at the output path
    fmtArg,     \* read_records, write_records: the argument `fmt` ("" for None)
    consumed    \* write_records: how many items of `records` were iterated

codecVars == <<inRecords, text, blocks, acc, attempts, idx, records, warnings, dropped>>

detectVars == <<name, content, opened, detected>>

ioVars == <<inputs, all_records, output, fmtArg, consumed>>

cliVars == <<every, argTo, start, files, events, ret, ioVars>>

vars == <<pc, result, raised, codecVars, detectVars, cliVars>>

(***************************************************************************)
(* Python string primitives                                                *)
(***************************************************************************)
Digits == {"0", "1", "2", "3", "4", "5", "6", "7", "8", "9"}

Letters ==
    {"a", "b", "c", "d", "e", "f", "g", "h", "i", "j", "k", "l", "m",
     "n", "o", "p", "q", "r", "s", "t", "u", "v", "w", "x", "y", "z",
     "A", "B", "C", "D", "E", "F", "G", "H", "I", "J", "K", "L", "M",
     "N", "O", "P", "Q", "R", "S", "T", "U", "V", "W", "X", "Y", "Z"}

\* \w of the re module
WordChars == Digits \cup Letters \cup {"_"}

\* str.isspace (the characters that occur here)
Whitespace == {" ", "\t", "\n", "\r", "\f", "GS"}

\* the line boundaries of str.splitlines (the characters that occur here)
LineBreaks == {"\n", "\r", "\f", "GS"}

SeqsUpTo(S, n) == UNION {[1..k -> S] : k \in 0..n}

Rep(c, n) == [i \in 1..n |-> c]

\* s[from:] with `from` a 0-based Python index
DropFirst(s, n) == SubSeq(s, n + 1, Len(s))

StartsWith(s, p) == Len(s) >= Len(p) /\ SubSeq(s, 1, Len(p)) = p

Contains(s, p) == \E i \in 1..(Len(s) - Len(p) + 1) : SubSeq(s, i, i + Len(p) - 1) = p

\* index of the first element of s satisfying the set membership, 0 if none
FirstIn(s, S) ==
    IF \E i \in 1..Len(s) : s[i] \in S
    THEN CHOOSE i \in 1..Len(s) : s[i] \in S /\ \A j \in 1..(i - 1) : s[j] \notin S
    ELSE 0

FirstNotIn(s, S) ==
    IF \E i \in 1..Len(s) : s[i] \notin S
    THEN CHOOSE i \in 1..Len(s) : s[i] \notin S /\ \A j \in 1..(i - 1) : s[j] \in S
    ELSE 0

LastNotIn(s, S) ==
    IF \E i \in 1..Len(s) : s[i] \notin S
    THEN CHOOSE i \in 1..Len(s) : s[i] \notin S /\ \A j \in (i + 1)..Len(s) : s[j] \in S
    ELSE 0

LStrip(s) == LET i == FirstNotIn(s, Whitespace) IN IF i = 0 THEN <<>> ELSE SubSeq(s, i, Len(s))

RStrip(s) == SubSeq(s, 1, LastNotIn(s, Whitespace))

Strip(s) == LStrip(RStrip(s))

RECURSIVE RStrip1(_)
\* s.rstrip("\n")
RStrip1(s) == IF s # <<>> /\ s[Len(s)] = "\n" THEN RStrip1(SubSeq(s, 1, Len(s) - 1)) ELSE s

RECURSIVE Split(_, _)
\* s.split(sep) for a one-character separator
Split(s, sep) ==
    LET i == FirstIn(s, {sep}) IN
    IF i = 0 THEN <<s>>
    ELSE <<SubSeq(s, 1, i - 1)>> \o Split(SubSeq(s, i + 1, Len(s)), sep)

RECURSIVE SplitLines(_)
\* s.splitlines(): "\r\n" is one boundary, no empty last line
SplitLines(s) ==
    LET i == FirstIn(s, LineBreaks) IN
    IF s = <<>> THEN <<>>
    ELSE IF i = 0 THEN <<s>>
    ELSE LET w == IF s[i] = "\r" /\ i < Len(s) /\ s[i + 1] = "\n" THEN 2 ELSE 1
         IN <<SubSeq(s, 1, i - 1)>> \o SplitLines(SubSeq(s, i + w, Len(s)))

RECURSIVE Join(_, _)
\* sep.join(parts)
Join(parts, sep) ==
    IF parts = <<>> THEN <<>>
    ELSE IF Len(parts) = 1 THEN parts[1]
    ELSE parts[1] \o sep \o Join(Tail(parts), sep)

RECURSIVE Concat(_)
Concat(parts) == IF parts = <<>> THEN <<>> ELSE Head(parts) \o Concat(Tail(parts))

(***************************************************************************)
(* Record model (pymarc Record / Field as the codec uses them)             *)
(***************************************************************************)
\* Record(force_utf8=True).leader before any "=LDR" line sets it
DefaultLeader == Rep(" ", 9) \o <<"a", "2", "2">> \o Rep(" ", 8) \o <<"4", "5", "0", "0">>

NewRecord == [leader |-> DefaultLeader, fields |-> <<>>]

ControlField(tag, data) == [tag |-> tag, data |-> data]

\* subfields is the flat list [code, value, code, value, ...]
DataField(tag, indicators, subfields) ==
    [tag |-> tag, indicators |-> indicators, subfields |-> subfields]

add_field(record, f) == [record EXCEPT !.fields = Append(@, f)]

is_control_field(f) == StartsWith(f.tag, <<"0", "0">>)

(***************************************************************************)
(* mrk.py: write_mrk_records                                               *)
(***************************************************************************)
\* "".join(f"${code}{value}" for code, value in zip(sf[0::2], sf[1::2]))
SubfieldText(sf) ==
    Concat([k \in 1..(Len(sf) \div 2) |-> <<"$", sf[2 * k - 1]>> \o sf[2 * k]])

LeaderLine(record) == <<"=", "L", "D", "R", " ", " ">> \o record.leader

FieldLine(f) ==
    IF is_control_field(f)
    THEN <<"=">> \o f.tag \o <<" ", " ">> \o f.data
    ELSE LET ind1 == IF Len(f.indicators) > 0 THEN f.indicators[1] ELSE " "
             ind2 == IF Len(f.indicators) > 1 THEN f.indicators[2] ELSE " "
         IN <<"=">> \o f.tag \o <<" ", " ", ind1, ind2>> \o SubfieldText(f.subfields)

\* the lines one record appends to output_lines, its closing "" included
RecordLines(record) ==
    <<LeaderLine(record)>>
        \o [i \in 1..Len(record.fields) |-> FieldLine(record.fields[i])]
        \o << <<>> >>

OutputLines(recs) == Concat([i \in 1..Len(recs) |-> RecordLines(recs[i])])

\* variant: every line is stripped, not the whole output
FinishText_PerLine(output_lines) ==
    RStrip(Join([i \in 1..Len(output_lines) |-> RStrip(output_lines[i])], <<"\n">>)) \o <<"\n">>

FinishText(output_lines) == RStrip(Join(output_lines, <<"\n">>)) \o <<"\n">>

write_mrk_records(recs) == FinishText(OutputLines(recs))

(***************************************************************************)
(* mrk.py: parse_mrk_records / parse_mrk_record                            *)
(***************************************************************************)
Ok(record) == [err |-> "none", record |-> record]

Raise(kind) == [err |-> kind, record |-> NewRecord]

LDR == <<"L", "D", "R">>

\* TAG_RE.match(line): "=" and three \w characters
TagMatch(line) ==
    /\ Len(line) >= 4
    /\ line[1] = "="
    /\ \A i \in 2..4 : line[i] \in WordChars

\* rest = line[4:], less one leading space
RestOf(line) ==
    LET rest == DropFirst(line, 4)
    IN IF StartsWith(rest, <<" ">>) THEN DropFirst(rest, 1) ELSE rest

RECURSIVE ChunksToSubfields_DropBare(_)
\* variant: a chunk that is a code with no value is skipped like an empty one
ChunksToSubfields_DropBare(chunks) ==
    IF chunks = <<>> THEN <<>>
    ELSE LET chunk == Head(chunks) IN
         IF Len(chunk) < 2 THEN ChunksToSubfields_DropBare(Tail(chunks))
         ELSE <<chunk[1], DropFirst(chunk, 1)>> \o ChunksToSubfields_DropBare(Tail(chunks))

RECURSIVE ChunksToSubfields(_)
\* the loop over subfield_data.split("$"): empty chunks are skipped
ChunksToSubfields(chunks) ==
    IF chunks = <<>> THEN <<>>
    ELSE LET chunk == Head(chunks) IN
         IF chunk = <<>> THEN ChunksToSubfields(Tail(chunks))
         ELSE <<chunk[1], DropFirst(chunk, 1)>> \o ChunksToSubfields(Tail(chunks))

ParseSubfields(subfield_data) == ChunksToSubfields(Split(subfield_data, "$"))

RECURSIVE ParseLines(_, _, _)
\* the loop of parse_mrk_record from the given line on
ParseLines(lines, record, seen_field) ==
    IF lines = <<>>
    THEN IF ~seen_field THEN Raise("EmptyRecord") ELSE Ok(record)
    ELSE LET line == Head(lines)
             tag == SubSeq(line, 2, 4)
             rest == RestOf(line)
         IN IF ~StartsWith(line, <<"=">>) THEN Raise("InvalidLine")
            ELSE IF ~TagMatch(line) THEN Raise("InvalidTag")
            ELSE IF tag = LDR
            THEN ParseLines(Tail(lines), [record EXCEPT !.leader = Strip(rest)], TRUE)
            ELSE IF StartsWith(tag, <<"0", "0">>)
            THEN ParseLines(Tail(lines), add_field(record, ControlField(tag, Strip(rest))), TRUE)
            ELSE IF Len(rest) < 2 THEN Raise("MissingIndicators")
            ELSE ParseLines(
                     Tail(lines),
                     add_field(record,
                               DataField(tag, <<rest[1], rest[2]>>,
                                         ParseSubfields(DropFirst(rest, 2)))),
                     TRUE)

parse_mrk_record(lines) == ParseLines(lines, NewRecord, FALSE)

RECURSIVE CollectBlocks(_, _)
\* the loop of parse_mrk_records that groups the lines into blocks
CollectBlocks(lines, current) ==
    IF lines = <<>>
    THEN IF current # <<>> THEN <<current>> ELSE <<>>
    ELSE IF Strip(Head(lines)) = <<>>
    THEN (IF current # <<>> THEN <<current>> ELSE <<>>) \o CollectBlocks(Tail(lines), <<>>)
    ELSE CollectBlocks(Tail(lines), Append(current, RStrip1(Head(lines))))

SplitBlocks(t) == CollectBlocks(SplitLines(t), <<>>)

(***************************************************************************)
(* formats.py: ReadResult and the read_records / write_records calls       *)
(***************************************************************************)
ReadResult(recs, warns, drops) == [records |-> recs, warnings |-> warns, dropped |-> drops]

NoResult == [records |-> <<>>, warnings |-> <<"no result">>, dropped |-> -1]

\* `record is None`: what the MARCReader yields for a record it cannot decode
None == "None"

\* f"Dropped record {idx}: {exc}"
Warning(i, exc) == [position |-> i, cause |-> exc]

(***************************************************************************)
(* Inputs                                                                  *)
(***************************************************************************)
MaxRecords == 2
MaxBody == 5
MaxLines == 3
MaxAttempts == 5

T001 == <<"0", "0", "1">>

T245 == <<"2", "4", "5">>

Leaders == {<<"0">>, <<"0", " ">>}

ControlInputs == {ControlField(T001, d) : d \in {<<>>, <<"c">>, <<"c", " ">>}}

SubfieldInputs == {<<>>, <<"a", <<"X">>>>, <<"a", <<>>, "a", <<"X">>>>}

DataInputs ==
    {DataField(T245, ind, sf) : ind \in {<<" ", " ">>, <<"1", "0">>}, sf \in SubfieldInputs}

FieldLists ==
    {<<>>}
        \cup {<<f>> : f \in ControlInputs \cup DataInputs}
        \cup {<<ControlField(T001, <<"c">>), DataField(T245, <<"1", "0">>, <<"a", <<"X">>>>)>>,
              <<DataField(T245, <<" ", " ">>, <<>>), ControlField(T001, <<"c">>)>>,
              <<DataField(T245, <<"1", "0">>, <<"a", <<"X">>>>),
                DataField(T245, <<"1", "0">>, <<"a", <<>>, "a", <<"X">>>>)>>}

RecordInputs == {[leader |-> l, fields |-> fs] : l \in Leaders, fs \in FieldLists}

RecordLists == SeqsUpTo(RecordInputs, MaxRecords)

\* one-line texts: a line start followed by every short run of body characters
LineHeads ==
    {<<>>,
     <<"x">>,
     <<"=", "2", "4">>,
     <<"=", "2", "4", "5">>,
     <<"=", "2", "4", "5", " ">>,
     <<"=", "2", "4", "5", " ", " ">>,
     <<"=", "2", "4", "5", " ", " ", "1", "0">>,
     <<"=", "0", "0", "1", " ", " ">>,
     <<"=", "L", "D", "R", " ", " ">>}

BodyChars == {" ", "1", "$", "a"}

OneLineTexts == {h \o b : h \in LineHeads, b \in SeqsUpTo(BodyChars, MaxBody)}

\* texts of several lines, for the block structure
BlockLines ==
    {<<>>,
     <<" ">>,
     <<"x">>,
     <<"=", "2", "4">>,
     <<"=", "L", "D", "R", " ", " ", "0">>,
     <<"=", "0", "0", "1", " ", " ", "c">>,
     <<"=", "2", "4", "5", " ", " ", "1", "0", "$", "a", "X">>}

ManyLineTexts == {Join(ls, <<"\n">>) : ls \in SeqsUpTo(BlockLines, MaxLines)}

TextInputs == OneLineTexts \cup ManyLineTexts

GoodRecords == {"r1", "r2"}

AttemptInputs == SeqsUpTo(GoodRecords \cup {None}, MaxAttempts)

(***************************************************************************)
(* State machine                                                           *)
(***************************************************************************)
CodecIdle ==
    /\ inRecords = <<>> /\ text = <<>> /\ blocks = <<>> /\ acc = <<>>
    /\ attempts = <<>> /\ idx = 0 /\ records = <<>> /\ warnings = <<>> /\ dropped = 0

DetectIdle == name = <<>> /\ content = <<>> /\ opened = FALSE /\ detected = ""

\* no file at the path
NoFile == [exists |-> FALSE, fmt |-> "", records |-> <<>>]

\* a file left at the path by an earlier run
OldFile == [exists |-> TRUE, fmt |-> "mrc", records |-> <<<<0, 0>>>>]

\* the file after write_records(recs, path, f) has completed
Written(f, recs) == [exists |-> TRUE, fmt |-> f, records |-> recs]

\* the file after open("wb") when the write did not complete
Truncated(f) == [exists |-> TRUE, fmt |-> f, records |-> <<>>]

IoIdle ==
    /\ inputs = <<>> /\ all_records = <<>> /\ output = NoFile
    /\ fmtArg = "" /\ consumed = 0

CliIdle ==
    /\ every = 1 /\ argTo = "" /\ start = 0 /\ files = <<>> /\ events = <<>> /\ ret = -1
    /\ IoIdle

\* a caller holds a Record list and is about to write it as mnemonic text
InitMrkWrite ==
    /\ pc = "write_mrk"
    /\ inRecords \in RecordLists
    /\ text = <<>>
    /\ blocks = <<>> /\ acc = <<>> /\ result = NoResult /\ raised = "none"
    /\ attempts = <<>> /\ idx = 0 /\ records = <<>> /\ warnings = <<>> /\ dropped = 0
    /\ DetectIdle /\ CliIdle

\* a mnemonic-text file is about to be read
InitMrkRead ==
    /\ pc = "read_mrk"
    /\ inRecords = <<>>
    /\ text \in TextInputs
    /\ blocks = <<>> /\ acc = <<>> /\ result = NoResult /\ raised = "none"
    /\ attempts = <<>> /\ idx = 0 /\ records = <<>> /\ warnings = <<>> /\ dropped = 0
    /\ DetectIdle /\ CliIdle

InitMrk == InitMrkWrite \/ InitMrkRead

\* write_records(records, path, "mrk")
WriteRecordsMrk ==
    /\ pc = "write_mrk"
    /\ text' = write_mrk_records(inRecords)
    /\ pc' = "read_mrk"
    /\ UNCHANGED <<inRecords, blocks, acc, result, raised, attempts, idx, records,
                   warnings, dropped>>
    /\ UNCHANGED <<detectVars, cliVars>>

\* read_records(path, "mrk") up to the first next() of the generator
ReadRecordsMrk ==
    /\ pc = "read_mrk"
    /\ records' = <<>>
    /\ warnings' = <<>>
    /\ dropped' = 0
    /\ acc' = <<>>
    /\ LET bs == SplitBlocks(text) IN
       IF bs = <<>>
       THEN /\ raised' = "NoRecords"
            /\ pc' = "raised"
            /\ blocks' = <<>>
       ELSE /\ blocks' = bs
            /\ pc' = "parsing"
            /\ raised' = raised
    /\ UNCHANGED <<inRecords, text, result, attempts, idx>>
    /\ UNCHANGED <<detectVars, cliVars>>

\* variant: a block that fails to parse is dropped and the read goes on
ParseNextBlock_SkipBad ==
    /\ pc = "parsing"
    /\ blocks # <<>>
    /\ LET r == parse_mrk_record(Head(blocks)) IN
       IF r.err # "none"
       THEN /\ dropped' = dropped + 1
            /\ UNCHANGED acc
       ELSE /\ acc' = Append(acc, r.record)
            /\ UNCHANGED dropped
    /\ blocks' = Tail(blocks)
    /\ UNCHANGED <<pc, raised, inRecords, text, result, attempts, idx, records, warnings>>
    /\ UNCHANGED <<detectVars, cliVars>>

\* one turn of `for block in blocks: yield parse_mrk_record(block)` under list()
ParseNextBlock ==
    /\ pc = "parsing"
    /\ blocks # <<>>
    /\ LET r == parse_mrk_record(Head(blocks)) IN
       IF r.err # "none"
       THEN /\ raised' = r.err
            /\ pc' = "raised"
            /\ UNCHANGED <<acc, blocks>>
       ELSE /\ acc' = Append(acc, r.record)
            /\ blocks' = Tail(blocks)
            /\ UNCHANGED <<pc, raised>>
    /\ UNCHANGED <<inRecords, text, result, attempts, idx, records, warnings, dropped>>
    /\ UNCHANGED <<detectVars, cliVars>>

\* records = list(...) completes; return ReadResult(records, warnings, dropped)
ReturnMrk ==
    /\ pc = "parsing"
    /\ blocks = <<>>
    /\ records' = acc
    /\ result' = ReadResult(acc, warnings, dropped)
    /\ pc' = "returned"
    /\ UNCHANGED <<inRecords, text, blocks, acc, raised, attempts, idx, warnings, dropped>>
    /\ UNCHANGED <<detectVars, cliVars>>

NextMrk == WriteRecordsMrk \/ ReadRecordsMrk \/ ParseNextBlock \/ ReturnMrk

SpecMrk == InitMrk /\ [][NextMrk]_vars

\* a binary stream is about to be read
InitMrc ==
    /\ pc = "read_mrc"
    /\ attempts \in AttemptInputs
    /\ inRecords = <<>> /\ text = <<>>
    /\ blocks = <<>> /\ acc = <<>> /\ result = NoResult /\ raised = "none"
    /\ idx = 0 /\ records = <<>> /\ warnings = <<>> /\ dropped = 0
    /\ DetectIdle /\ CliIdle

\* read_records(path, "mrc") up to the loop over the reader
ReadRecordsMrc ==
    /\ pc = "read_mrc"
    /\ records' = <<>>
    /\ warnings' = <<>>
    /\ dropped' = 0
    /\ idx' = 0
    /\ pc' = "reading"
    /\ UNCHANGED <<inRecords, text, blocks, acc, result, raised, attempts>>
    /\ UNCHANGED <<detectVars, cliVars>>

\* variant: enumerate(reader) counting from 0
ReadNextAttempt_FromZero ==
    /\ pc = "reading"
    /\ idx < Len(attempts)
    /\ idx' = idx + 1
    /\ LET record == attempts[idx + 1] IN
       IF record = None
       THEN /\ dropped' = dropped + 1
            /\ warnings' = Append(warnings, Warning(idx, "Empty record"))
            /\ UNCHANGED records
       ELSE /\ records' = Append(records, record)
            /\ UNCHANGED <<dropped, warnings>>
    /\ UNCHANGED <<pc, inRecords, text, blocks, acc, result, raised, attempts>>
    /\ UNCHANGED <<detectVars, cliVars>>

\* one turn of `for idx, record in enumerate(reader, start=1)`
ReadNextAttempt ==
    /\ pc = "reading"
    /\ idx < Len(attempts)
    /\ idx' = idx + 1
    /\ LET record == attempts[idx + 1] IN
       IF record = None
       THEN /\ dropped' = dropped + 1
            /\ warnings' = Append(warnings, Warning(idx + 1, "Empty record"))
            /\ UNCHANGED records
       ELSE /\ records' = Append(records, record)
            /\ UNCHANGED <<dropped, warnings>>
    /\ UNCHANGED <<pc, inRecords, text, blocks, acc, result, raised, attempts>>
    /\ UNCHANGED <<detectVars, cliVars>>

\* the reader is exhausted: return ReadResult(records, warnings, dropped)
ReturnMrc ==
    /\ pc = "reading"
    /\ idx = Len(attempts)
    /\ result' = ReadResult(records, warnings, dropped)
    /\ pc' = "returned"
    /\ UNCHANGED <<inRecords, text, blocks, acc, raised, attempts, idx, records,
                   warnings, dropped>>
    /\ UNCHANGED <<detectVars, cliVars>>

NextMrc == ReadRecordsMrc \/ ReadNextAttempt \/ ReturnMrc

SpecMrc == InitMrc /\ [][NextMrc]_vars

(***************************************************************************)
(* formats.py: detect_format                                               *)
(***************************************************************************)
SampleSize == 2048
XmlWindow == 500
SniffLines == 20

UpperCase ==
    <<"A", "B", "C", "D", "E", "F", "G", "H", "I", "J", "K", "L", "M",
      "N", "O", "P", "Q", "R", "S", "T", "U", "V", "W", "X", "Y", "Z">>

LowerCase ==
    <<"a", "b", "c", "d", "e", "f", "g", "h", "i", "j", "k", "l", "m",
      "n", "o", "p", "q", "r", "s", "t", "u", "v", "w", "x", "y", "z">>

\* variant: the suffix is compared as it is spelt
Lower_AsSpelt(s) == s

\* str.lower
Lower(s) ==
    [i \in 1..Len(s) |->
        IF \E k \in 1..26 : UpperCase[k] = s[i]
        THEN LowerCase[CHOOSE k \in 1..26 : UpperCase[k] = s[i]]
        ELSE s[i]]

\* PurePath.suffix: from the last "." on, unless it starts or ends the name
Suffix(n) ==
    LET dots == {i \in 1..Len(n) : n[i] = "."}
        j == IF dots = {} THEN 0 ELSE CHOOSE i \in dots : \A k \in dots : k <= i
    IN IF 1 < j /\ j < Len(n) THEN SubSeq(n, j, Len(n)) ELSE <<>>

\* s[:n]
Take(s, n) == SubSeq(s, 1, IF Len(s) < n THEN Len(s) ELSE n)

\* bytes.decode("utf-8", errors="ignore"): invalid bytes are left out
IsValidByte(b) == b # "INV"

Decode(sample) == SelectSeq(sample, IsValidByte)

XML_DECL == <<"<", "?", "x", "m", "l">>

RECORD_TAG == <<"<", "r", "e", "c", "o", "r", "d">>

LDR_MARK == <<"=", "L", "D", "R">>

\* text_sample.lstrip().startswith("<?xml") or "<record" in text_sample[:500]
LooksLikeXml(text_sample) ==
    \/ StartsWith(LStrip(text_sample), XML_DECL)
    \/ Contains(Take(text_sample, XmlWindow), RECORD_TAG)

\* len(sample) > 6 and sample[:5].isdigit() and b"\x1d" in sample
LooksLikeMrc(sample) ==
    /\ Len(sample) > 6
    /\ \A i \in 1..5 : sample[i] \in Digits
    /\ \E i \in 1..Len(sample) : sample[i] = "GS"

\* line.startswith("=LDR") or re.match(r"^=\d{3}", line)
MrkLine(line) ==
    \/ StartsWith(line, LDR_MARK)
    \/ /\ Len(line) >= 4
       /\ line[1] = "="
       /\ \A i \in 2..4 : line[i] \in Digits

\* the loop over text_sample.splitlines()[:20]
LooksLikeMrk(text_sample) ==
    LET lines == Take(SplitLines(text_sample), SniffLines)
    IN \E i \in 1..Len(lines) : MrkLine(lines[i])

\* the tag the extension alone decides, "" when it decides nothing
ByExtension(suffix) ==
    IF suffix = <<".", "x", "m", "l">> THEN "marcxml"
    ELSE IF suffix \in {<<".", "m", "r", "k">>, <<".", "t", "x", "t">>} THEN "mrk"
    ELSE IF suffix = <<".", "m", "r", "c">> THEN "mrc"
    ELSE ""

\* variant: the binary rule is tried before the XML rule
ByContent_MrcFirst(bytes) ==
    LET sample == Take(bytes, SampleSize)
        text_sample == Decode(sample)
    IN IF LooksLikeMrc(sample) THEN "mrc"
       ELSE IF LooksLikeXml(text_sample) THEN "marcxml"
       ELSE IF LooksLikeMrk(text_sample) THEN "mrk"
       ELSE ""

\* the tag the content decides, "" when no rule matches
ByContent(bytes) ==
    LET sample == Take(bytes, SampleSize)
        text_sample == Decode(sample)
    IN IF LooksLikeXml(text_sample) THEN "marcxml"
       ELSE IF LooksLikeMrc(sample) THEN "mrc"
       ELSE IF LooksLikeMrk(text_sample) THEN "mrk"
       ELSE ""

MaxPieces == 2

Pad(n) == Rep("x", n)

Pieces ==
    {XML_DECL,
     RECORD_TAG,
     <<"0", "0", "1", "2", "3">>,
     <<"0", "0", "1", "2", "3", "4">>,
     <<"GS">>,
     <<"0", "0", "1", "2", "3", "4", "GS">>,
     LDR_MARK,
     <<"=", "2", "4", "5">>,
     <<" ">>,
     <<"\n">>,
     <<"INV">>,
     Pad(XmlWindow - 7),
     Pad(XmlWindow - 6),
     Rep("\n", SniffLines - 1),
     Rep("\n", SniffLines),
     <<"0", "0", "1", "2", "3">> \o Pad(SampleSize - 6),
     <<"0", "0", "1", "2", "3", "4">> \o Pad(SampleSize - 6)}

ContentInputs == {Concat(ps) : ps \in SeqsUpTo(Pieces, MaxPieces)}

NameInputs ==
    {<<"a">>,
     <<".", "m", "r", "k">>,
     <<"a", ".", "d", "a", "t">>,
     <<"a", ".", "x", "m", "l">>,
     <<"a", ".", "X", "M", "L">>,
     <<"a", ".", "m", "r", "k">>,
     <<"a", ".", "T", "x", "t">>,
     <<"a", ".", "m", "r", "c">>,
     <<"a", ".", "x", "m", "l", ".", "M", "R", "C">>}

\* a file and its name, before detect_format(path)
InitDetect ==
    /\ pc = "detect_format"
    /\ name \in NameInputs
    /\ content \in ContentInputs
    /\ opened = FALSE
    /\ detected = ""
    /\ result = NoResult /\ raised = "none"
    /\ CodecIdle /\ CliIdle

\* ValueError(f"Unable to detect MARC format for {path.name}.")
UnknownFormat(n) == [kind |-> "UnknownFormat", file |-> n]

\* detect_format(path)
DetectFormat ==
    /\ pc = "detect_format"
    /\ LET ext == ByExtension(Lower(Suffix(name))) IN
       IF ext # ""
       THEN /\ detected' = ext
            /\ pc' = "returned"
            /\ UNCHANGED <<opened, raised>>
       ELSE /\ opened' = TRUE
            /\ LET fmt == ByContent(content) IN
               IF fmt # ""
               THEN /\ detected' = fmt
                    /\ pc' = "returned"
                    /\ UNCHANGED raised
               ELSE /\ raised' = UnknownFormat(name)
                    /\ pc' = "raised"
                    /\ UNCHANGED detected
    /\ UNCHANGED <<name, content, result, codecVars, cliVars>>

NextDetect == DetectFormat

SpecDetect == InitDetect /\ [][NextDetect]_vars

(***************************************************************************)
(* cli.py: cmd_split                                                       *)
(***************************************************************************)
SUPPORTED_FORMATS == {"mrc", "mrk", "marcxml"}

MaxInput == 5
MaxEvery == 3

DigitChars == <<"0", "1", "2", "3", "4", "5", "6", "7", "8", "9">>

RECURSIVE Decimal(_)
\* str(n) for n >= 0
Decimal(n) == IF n < 10 THEN <<DigitChars[n + 1]>> ELSE Decimal(n \div 10) \o <<DigitChars[(n % 10) + 1]>>

\* f"{idx:03d}"
Pad3(n) == LET d == Decimal(n) IN IF Len(d) < 3 THEN Rep("0", 3 - Len(d)) \o d ELSE d

\* f"{input_path.stem}_part{idx:03d}.{fmt if fmt != 'marcxml' else 'xml'}"
PartName(i, fmt) == [part |-> Pad3(i), ext |-> IF fmt # "marcxml" THEN fmt ELSE "xml"]

\* variant: the slice stops one record early
Chunk_Short(recs, from, n) ==
    SubSeq(recs, from + 1, IF from + n - 1 < Len(recs) THEN from + n - 1 ELSE Len(recs))

\* result.records[start : start + every]
Chunk(recs, from, n) ==
    SubSeq(recs, from + 1, IF from + n < Len(recs) THEN from + n ELSE Len(recs))

\* whether `start` is a value of range(0, total, every), every # 0
InRange(from, total, step) == step > 0 /\ from < total

\* fmt = args.to or _format_or_detect(input_path)
SplitFmt == IF argTo # "" THEN argTo ELSE detected

StartEvent(op) == [event |-> "start", operation |-> op]

ErrorEvent(msg) == [event |-> "error", message |-> msg]

ProgressEvent(n) == [event |-> "progress", records_read |-> n]

DoneEvent(op, out, n, drops, warns) ==
    [event |-> "done", operation |-> op, files |-> out, records |-> n,
     dropped |-> drops, warnings |-> warns]

\* what read_records(input_path) can return to a command
ReadOutcomes ==
    {ReadResult([i \in 1..n |-> i], [k \in 1..d |-> Warning(n + k, "Empty record")], d) :
        n \in 0..MaxInput, d \in 0..1}

\* arguments of a split command; `detected` is the format of the input file
InitSplit ==
    /\ pc = "cmd_split"
    /\ every \in (-1)..MaxEvery
    /\ argTo \in SUPPORTED_FORMATS \cup {"", "pdf"}
    /\ detected \in SUPPORTED_FORMATS
    /\ start = 0 /\ files = <<>> /\ events = <<>> /\ ret = -1
    /\ name = <<>> /\ content = <<>> /\ opened = FALSE
    /\ result = NoResult /\ raised = "none"
    /\ CodecIdle /\ IoIdle

\* cmd_split up to the outcome of read_records
SplitStart ==
    /\ pc = "cmd_split"
    /\ \/ /\ events' = <<StartEvent("split"), ErrorEvent("read")>>
          /\ ret' = 1
          /\ pc' = "exit"
          /\ UNCHANGED result
       \/ /\ \E rr \in ReadOutcomes : result' = rr
          /\ events' = <<StartEvent("split")>>
          /\ pc' = "split_format"
          /\ UNCHANGED ret
    /\ UNCHANGED <<raised, every, argTo, start, files, codecVars, detectVars, ioVars>>

\* the output format is resolved and checked, the loop's range is built
SplitFormat ==
    /\ pc = "split_format"
    /\ IF SplitFmt \notin SUPPORTED_FORMATS
       THEN /\ events' = Append(events, ErrorEvent("Unsupported output format"))
            /\ ret' = 1
            /\ pc' = "exit"
            /\ UNCHANGED raised
       ELSE IF every = 0
       THEN /\ raised' = "ValueError"
            /\ pc' = "crashed"
            /\ UNCHANGED <<events, ret>>
       ELSE /\ pc' = "split_loop"
            /\ UNCHANGED <<events, ret, raised>>
    /\ start' = 0
    /\ UNCHANGED <<result, every, argTo, files, codecVars, detectVars, ioVars>>

\* one turn of the loop: a chunk is written and reported, or the write raises
SplitChunk ==
    /\ pc = "split_loop"
    /\ InRange(start, Len(result.records), every)
    /\ LET total == Len(result.records)
           chunk == Chunk(result.records, start, every)
           i == (start \div every) + 1
       IN \/ /\ files' = Append(files, [name |-> PartName(i, SplitFmt), records |-> chunk])
             /\ events' = Append(events,
                                 ProgressEvent(IF start + Len(chunk) < total
                                               THEN start + Len(chunk) ELSE total))
             /\ start' = start + every
             /\ UNCHANGED <<pc, raised>>
          \/ /\ raised' = "WriteError"
             /\ pc' = "crashed"
             /\ UNCHANGED <<files, events, start>>
    /\ UNCHANGED <<result, ret, every, argTo, codecVars, detectVars, ioVars>>

\* the range is exhausted: the done event, return 0
SplitDone ==
    /\ pc = "split_loop"
    /\ ~InRange(start, Len(result.records), every)
    /\ events' = Append(events,
                        DoneEvent("split", [k \in 1..Len(files) |-> files[k].name],
                                  Len(result.records), result.dropped, result.warnings))
    /\ ret' = 0
    /\ pc' = "exit"
    /\ UNCHANGED <<result, raised, every, argTo, start, files, codecVars, detectVars,
                   ioVars>>

NextSplit == SplitStart \/ SplitFormat \/ SplitChunk \/ SplitDone

SpecSplit == InitSplit /\ [][NextSplit]_vars

(***************************************************************************)
(* cli.py: cmd_merge                                                       *)
(***************************************************************************)
MaxFiles == 2
MaxFileRecords == 3

\* read_records(input_path) returned res, or raised
ReadOk(res) == [ok |-> TRUE, res |-> res]

ReadFails == [ok |-> FALSE, res |-> ReadResult(<<>>, <<>>, 0)]

\* the ReadResult of the k-th file: its n records in file order and d drops
FileResult(k, n, d) ==
    ReadResult([i \in 1..n |-> <<k, i>>],
               [j \in 1..d |-> Warning(n + j, "Empty record")], d)

\* what read_records can do for the k-th input
FileOutcomes(k) ==
    {ReadFails} \cup {ReadOk(FileResult(k, n, d)) : n \in 0..MaxFileRecords, d \in 0..1}

\* args.inputs (nargs="+"), each with the outcome of reading it
InputLists ==
    UNION {{ins \in [1..m -> UNION {FileOutcomes(k) : k \in 1..m}] :
               \A k \in 1..m : ins[k] \in FileOutcomes(k)} : m \in 1..MaxFiles}

\* variant: the new items are put in front of the list
Extend_Front(list, items) == items \o list

\* list.extend(items)
Extend(list, items) == list \o items

\* arguments of a merge command; a file may already be at the output path
InitMerge ==
    /\ pc = "cmd_merge"
    /\ inputs \in InputLists
    /\ argTo \in SUPPORTED_FORMATS
    /\ output \in {NoFile, OldFile}
    /\ all_records = <<>> /\ fmtArg = "" /\ consumed = 0
    /\ every = 1 /\ start = 0 /\ files = <<>> /\ events = <<>> /\ ret = -1
    /\ result = NoResult /\ raised = "none"
    /\ CodecIdle /\ DetectIdle

\* the start event and the three accumulators
MergeStart ==
    /\ pc = "cmd_merge"
    /\ events' = <<StartEvent("merge")>>
    /\ all_records' = <<>>
    /\ warnings' = <<>>
    /\ dropped' = 0
    /\ idx' = 0
    /\ pc' = "merge_loop"
    /\ UNCHANGED <<result, raised, inRecords, text, blocks, acc, attempts, records>>
    /\ UNCHANGED <<detectVars, every, argTo, start, files, ret>>
    /\ UNCHANGED <<inputs, output, fmtArg, consumed>>

\* one turn of `for input_path in inputs`
MergeRead ==
    /\ pc = "merge_loop"
    /\ idx < Len(inputs)
    /\ LET r == inputs[idx + 1] IN
       IF ~r.ok
       THEN /\ events' = Append(events, ErrorEvent("read"))
            /\ ret' = 1
            /\ pc' = "exit"
            /\ UNCHANGED <<result, all_records, warnings, dropped, idx>>
       ELSE /\ result' = r.res
            /\ all_records' = Extend(all_records, r.res.records)
            /\ warnings' = Extend(warnings, r.res.warnings)
            /\ dropped' = dropped + r.res.dropped
            /\ events' = Append(events, ProgressEvent(Len(all_records')))
            /\ idx' = idx + 1
            /\ UNCHANGED <<pc, ret>>
    /\ UNCHANGED <<raised, inRecords, text, blocks, acc, attempts, records>>
    /\ UNCHANGED <<detectVars, every, argTo, start, files>>
    /\ UNCHANGED <<inputs, output, fmtArg, consumed>>

\* every input is read: write_records(all_records, output_path, fmt), which
\* completes (done, return 0) or raises (error, return 1)
MergeWrite ==
    /\ pc = "merge_loop"
    /\ idx = Len(inputs)
    /\ inRecords' = all_records
    /\ fmtArg' = argTo
    /\ \/ /\ output' = Written(argTo, all_records)
          /\ consumed' = Len(all_records)
          /\ events' = Append(events,
                              DoneEvent("merge", "output", Len(all_records), dropped,
                                        warnings))
          /\ ret' = 0
       \/ /\ output' \in {output, Truncated(argTo)}
          /\ consumed' \in {0, Len(all_records)}
          /\ events' = Append(events, ErrorEvent("write"))
          /\ ret' = 1
    /\ pc' = "exit"
    /\ UNCHANGED <<result, raised, text, blocks, acc, attempts, idx, records, warnings,
                   dropped>>
    /\ UNCHANGED <<detectVars, every, argTo, start, files, inputs, all_records>>

NextMerge == MergeStart \/ MergeRead \/ MergeWrite

SpecMerge == InitMerge /\ [][NextMerge]_vars

(***************************************************************************)
(* cli.py: cmd_count and cmd_convert                                       *)
(***************************************************************************)
\* what read_records(input_path) gives a command that reads one file
OneFileOutcomes == FileOutcomes(1)

\* arguments of a count command; `detected` is the format of the input file
InitCount ==
    /\ pc = "cmd_count"
    /\ inputs \in {<<o>> : o \in OneFileOutcomes}
    /\ detected \in SUPPORTED_FORMATS
    /\ argTo = "" /\ output = NoFile
    /\ all_records = <<>> /\ fmtArg = "" /\ consumed = 0
    /\ every = 1 /\ start = 0 /\ files = <<>> /\ events = <<>> /\ ret = -1
    /\ name = <<>> /\ content = <<>> /\ opened = FALSE
    /\ result = NoResult /\ raised = "none"
    /\ CodecIdle

\* cmd_count: start, read_records, then error (return 1) or done (return 0)
CountRun ==
    /\ pc = "cmd_count"
    /\ LET r == inputs[1] IN
       IF ~r.ok
       THEN /\ events' = <<StartEvent("count"), ErrorEvent("read")>>
            /\ ret' = 1
            /\ UNCHANGED result
       ELSE /\ result' = r.res
            /\ events' = <<StartEvent("count"),
                           DoneEvent("count", detected, Len(r.res.records),
                                     r.res.dropped, r.res.warnings)>>
            /\ ret' = 0
    /\ pc' = "exit"
    /\ UNCHANGED <<raised, codecVars, detectVars, every, argTo, start, files, ioVars>>

NextCount == CountRun

\* arguments of a convert command; a file may already be at the output path
InitConvert ==
    /\ pc = "cmd_convert"
    /\ inputs \in {<<o>> : o \in OneFileOutcomes}
    /\ argTo \in SUPPORTED_FORMATS
    /\ output \in {NoFile, OldFile}
    /\ all_records = <<>> /\ fmtArg = "" /\ consumed = 0
    /\ every = 1 /\ start = 0 /\ files = <<>> /\ events = <<>> /\ ret = -1
    /\ result = NoResult /\ raised = "none"
    /\ CodecIdle /\ DetectIdle

\* cmd_convert up to the outcome of read_records
ConvertRead ==
    /\ pc = "cmd_convert"
    /\ LET r == inputs[1] IN
       IF ~r.ok
       THEN /\ events' = <<StartEvent("convert"), ErrorEvent("read")>>
            /\ ret' = 1
            /\ pc' = "exit"
            /\ UNCHANGED result
       ELSE /\ result' = r.res
            /\ events' = <<StartEvent("convert")>>
            /\ pc' = "convert_write"
            /\ UNCHANGED ret
    /\ UNCHANGED <<raised, codecVars, detectVars, every, argTo, start, files, ioVars>>

\* write_records(result.records, output_path, fmt), which completes (done,
\* return 0) or raises (error, return 1)
ConvertWrite ==
    /\ pc = "convert_write"
    /\ inRecords' = result.records
    /\ fmtArg' = argTo
    /\ \/ /\ output' = Written(argTo, result.records)
          /\ consumed' = Len(result.records)
          /\ events' = Append(events,
                              DoneEvent("convert", "output", Len(result.records),
                                        result.dropped, result.warnings))
          /\ ret' = 0
       \/ /\ output' \in {output, Truncated(argTo)}
          /\ consumed' \in {0, Len(result.records)}
          /\ events' = Append(events, ErrorEvent("write"))
          /\ ret' = 1
    /\ pc' = "exit"
    /\ UNCHANGED <<result, raised, text, blocks, acc, attempts, idx, records, warnings,
                   dropped>>
    /\ UNCHANGED <<detectVars, every, argTo, start, files, inputs, all_records>>

NextConvert == ConvertRead \/ ConvertWrite

(***************************************************************************)
(* cli.py: the four commands                                               *)
(***************************************************************************)
InitCli == InitCount \/ InitSplit \/ InitMerge \/ InitConvert

NextCli == NextCount \/ NextSplit \/ NextMerge \/ NextConvert

SpecCli == InitCli /\ [][NextCli]_vars

(***************************************************************************)
(* formats.py: read_records and write_records, by format                   *)
(***************************************************************************)
\* format tags a caller may pass; "" stands for None (no declared format)
FormatTags == SUPPORTED_FORMATS \cup {"", "pdf", "MRC", "xml", "txt"}

\* ValueError(f"Unsupported format: {fmt}"), f"Unsupported output format: {fmt}"
Unsupported(f) == [kind |-> "Unsupported", what |-> f]

\* any other exception that leaves read_records or write_records
Failure(op) == [kind |-> "Failure", what |-> op]

\* detect_format(path): the tag ("" when it raises) and whether it sniffed
Detect(n, c) ==
    LET ext == ByExtension(Lower(Suffix(n))) IN
    [fmt |-> IF ext # "" THEN ext ELSE ByContent(c), sniffed |-> ext = ""]

\* records a caller passes to write_records
WriteInputs == {[i \in 1..n |-> <<1, i>>] : n \in 0..MaxFileRecords}

\* one-piece contents of the file at path
FileContents == {<<>>} \cup Pieces

\* a call of read_records(path, fmt) or of write_records(records, path, fmt)
InitFormats ==
    /\ fmtArg \in FormatTags
    /\ \/ /\ pc = "read_records"
          /\ name \in NameInputs
          /\ content \in FileContents
          /\ inRecords = <<>>
          /\ output = NoFile
       \/ /\ pc = "write_records"
          /\ name = <<>>
          /\ content = <<>>
          /\ inRecords \in WriteInputs
          /\ output \in {NoFile, OldFile}
    /\ opened = FALSE /\ detected = "" /\ consumed = 0
    /\ text = <<>> /\ blocks = <<>> /\ acc = <<>>
    /\ attempts = <<>> /\ idx = 0 /\ records = <<>> /\ warnings = <<>> /\ dropped = 0
    /\ result = NoResult /\ raised = "none"
    /\ inputs = <<>> /\ all_records = <<>>
    /\ every = 1 /\ argTo = "" /\ start = 0 /\ files = <<>> /\ events = <<>> /\ ret = -1

\* read_records(path, fmt)
ReadRecords ==
    /\ pc = "read_records"
    /\ LET d == Detect(name, content)
           fmt == IF fmtArg # "" THEN fmtArg ELSE d.fmt
           sniffed == fmtArg = "" /\ d.sniffed
       IN /\ detected' = IF fmtArg # "" THEN detected ELSE d.fmt
          /\ IF fmt = ""
             THEN /\ raised' = UnknownFormat(name)
                  /\ pc' = "raised"
                  /\ opened' = (opened \/ sniffed)
                  /\ UNCHANGED result
             ELSE IF fmt \in SUPPORTED_FORMATS
             THEN /\ opened' = TRUE
                  /\ \/ /\ \E n \in 0..MaxFileRecords, k \in 0..1 :
                               /\ k = 1 => fmt = "mrc"
                               /\ result' = FileResult(1, n, k)
                        /\ pc' = "returned"
                        /\ UNCHANGED raised
                     \/ /\ raised' = Failure("read")
                        /\ pc' = "raised"
                        /\ UNCHANGED result
             ELSE /\ raised' = Unsupported(fmt)
                  /\ pc' = "raised"
                  /\ opened' = (opened \/ sniffed)
                  /\ UNCHANGED result
    /\ UNCHANGED <<name, content, codecVars, cliVars>>

\* variant: the output file is opened for writing before the format is looked at
WriteRecords_OpenFirst ==
    /\ pc = "write_records"
    /\ IF fmtArg \in SUPPORTED_FORMATS
       THEN /\ output' = Written(fmtArg, inRecords)
            /\ consumed' = Len(inRecords)
            /\ pc' = "returned"
            /\ UNCHANGED raised
       ELSE /\ raised' = Unsupported(fmtArg)
            /\ pc' = "raised"
            /\ output' = Truncated(fmtArg)
            /\ UNCHANGED consumed
    /\ UNCHANGED <<result, codecVars, detectVars>>
    /\ UNCHANGED <<every, argTo, start, files, events, ret, inputs, all_records, fmtArg>>

\* write_records(records, path, fmt)
WriteRecords ==
    /\ pc = "write_records"
    /\ IF fmtArg \in SUPPORTED_FORMATS
       THEN \/ /\ output' = Written(fmtArg, inRecords)
               /\ consumed' = Len(inRecords)
               /\ pc' = "returned"
               /\ UNCHANGED raised
            \/ /\ output' \in {output, Truncated(fmtArg)}
               /\ consumed' \in 0..Len(inRecords)
               /\ raised' = Failure("write")
               /\ pc' = "raised"
       ELSE /\ raised' = Unsupported(fmtArg)
            /\ pc' = "raised"
            /\ UNCHANGED <<output, consumed>>
    /\ UNCHANGED <<result, codecVars, detectVars>>
    /\ UNCHANGED <<every, argTo, start, files, events, ret, inputs, all_records, fmtArg>>

NextFormats == ReadRecords \/ WriteRecords

SpecFormats == InitFormats /\ [][NextFormats]_vars

(***************************************************************************)
(* The program: any one of the calls above                                 *)
(***************************************************************************)
Init == InitMrk \/ InitMrc \/ InitDetect \/ InitFormats \/ InitCli

Next == NextMrk \/ NextMrc \/ NextDetect \/ NextFormats \/ NextCli

Spec == Init /\ [][Next]_vars

(***************************************************************************)
(* Properties of the mnemonic-text codec and of the binary read            *)
(***************************************************************************)
\* C1: for every non-empty list R of records, each with at least one field,
\* reading back what write_mrk_records wrote never raises and yields a list
\* structurally equal to R (leaders, field order, tags, control data,
\* indicators and subfield sequences).
C1_MrkRoundTrip ==
    (inRecords # <<>> /\ \A i \in 1..Len(inRecords) : Len(inRecords[i].fields) >= 1)
        => /\ pc # "raised"
           /\ pc = "returned" => result.records = inRecords

BadPositions(as) == {i \in 1..Len(as) : as[i] = None}

IsGood(a) == a # None

\* C2: a bad decode attempt never aborts the binary read; the result holds
\* exactly the good records in stream order, dropped counts the bad attempts,
\* there is one warning per bad attempt carrying its 1-based position, and
\* len(records) + dropped is the number of attempts.
C2_PartialFailure ==
    /\ raised = "none"
    /\ pc = "reading" => Len(records) + dropped = idx
    /\ pc = "returned" =>
          /\ result.records = SelectSeq(attempts, IsGood)
          /\ result.dropped = Cardinality(BadPositions(attempts))
          /\ Len(result.warnings) = Cardinality(BadPositions(attempts))
          /\ {result.warnings[k].position : k \in 1..Len(result.warnings)}
                 = BadPositions(attempts)
          /\ \A k \in 1..(Len(result.warnings) - 1) :
                 result.warnings[k].position < result.warnings[k + 1].position
          /\ Len(result.records) + result.dropped = Len(attempts)

\* three good records followed by one bad one: 3 records, dropped = 1, warning 4
C2_Witness ==
    /\ pc = "returned"
    /\ attempts = <<"r1", "r2", "r1", None>>
    /\ result.records = <<"r1", "r2", "r1">>
    /\ result.dropped = 1
    /\ result.warnings = <<Warning(4, "Empty record")>>

\* a non-blank line that does not start with "=" or whose tag token does not
\* match the 3-character pattern
BadLine(line) == Strip(line) # <<>> /\ (~StartsWith(line, <<"=">>) \/ ~TagMatch(line))

HasBadLine(t) == \E i \in 1..Len(SplitLines(t)) : BadLine(SplitLines(t)[i])

\* C3: a mnemonic-text read whose input has such a line in any block never
\* returns (it raises) and hands no record to the caller, whatever blocks
\* were parsed before; a read that returns has no warnings and dropped = 0.
C3_AllOrNothing ==
    /\ HasBadLine(text) =>
           /\ pc # "returned"
           /\ ~(pc = "parsing" /\ blocks = <<>>)
    /\ pc = "raised" => result = NoResult /\ records = <<>>
    /\ pc = "returned" => result.warnings = <<>> /\ result.dropped = 0

\* a well-formed block was parsed, then the read raised on a later bad line
C3_Witness ==
    /\ pc = "raised"
    /\ HasBadLine(text)
    /\ acc # <<>>
    /\ result = NoResult

\* C4: every mnemonic-text parse that succeeds returns at least one record
\* and every returned record has at least one field, the leader line not
\* counting as a field.
C4_NoEmptyResults ==
    pc = "returned" =>
        /\ Len(result.records) >= 1
        /\ \A i \in 1..Len(result.records) : Len(result.records[i].fields) >= 1

\* the text is one line, a data-field line with its two indicator characters
OneDataLine(t) ==
    /\ Len(SplitLines(t)) = 1
    /\ LET line == SplitLines(t)[1] IN
       /\ TagMatch(line)
       /\ SubSeq(line, 2, 4) # LDR
       /\ ~StartsWith(SubSeq(line, 2, 4), <<"0", "0">>)
       /\ Len(RestOf(line)) >= 2

\* what follows the indicators on that line
SubfieldDataOf(t) == DropFirst(RestOf(SplitLines(t)[1]), 2)

\* a "$" followed by nothing or by another "$", or by a code with no value
Dangling(sd) ==
    \E i \in 1..Len(sd) :
        /\ sd[i] = "$"
        /\ \/ i = Len(sd)
           \/ sd[i + 1] = "$"
           \/ i + 1 = Len(sd)
           \/ sd[i + 2] = "$"

\* the two indicator characters of that line are no "$"
PlainIndicators(t) ==
    LET rest == RestOf(SplitLines(t)[1]) IN rest[1] # "$" /\ rest[2] # "$"

\* C5 as stated: a data-field line with a dangling subfield code is never
\* decoded; the read raises.
C5_DanglingRaises ==
    (pc = "returned" /\ OneDataLine(text) /\ PlainIndicators(text))
        => ~Dangling(SubfieldDataOf(text))

\* the positions of subfield_data at which a non-empty chunk starts
ChunkStarts(sd) == {j \in 1..Len(sd) : sd[j] # "$" /\ (j = 1 \/ sd[j - 1] = "$")}

\* the position after the chunk that starts at j
ChunkEnd(sd, j) ==
    IF \E i \in j..Len(sd) : sd[i] = "$"
    THEN CHOOSE i \in j..Len(sd) : sd[i] = "$" /\ \A k \in j..(i - 1) : sd[k] # "$"
    ELSE Len(sd) + 1

\* C5 amended: a data-field line with two indicator characters is decoded
\* without raising whatever its subfield data: each non-empty chunk between
\* "$" delimiters gives one subfield, in order, its first character the code
\* and the rest the value, so a code with no value is accepted with the empty
\* value and a "$" followed by nothing or by another "$" adds no subfield.
C5_DanglingAccepted ==
    OneDataLine(text) =>
        /\ pc # "raised"
        /\ pc = "returned" =>
              LET sd == SubfieldDataOf(text)
                  sf == result.records[1].fields[1].subfields
                  starts == ChunkStarts(sd)
              IN /\ Len(result.records) = 1
                 /\ Len(result.records[1].fields) = 1
                 /\ Len(sf) = 2 * Cardinality(starts)
                 /\ \A j \in starts :
                        LET k == Cardinality({i \in starts : i <= j}) IN
                        /\ sf[2 * k - 1] = sd[j]
                        /\ sf[2 * k] = SubSeq(sd, j + 1, ChunkEnd(sd, j) - 1)

\* "$a$a1" and the like: a code with no value came out with the empty value
C5_Witness ==
    /\ pc = "returned"
    /\ OneDataLine(text)
    /\ Dangling(SubfieldDataOf(text))
    /\ \E k \in 1..(Len(result.records[1].fields[1].subfields) \div 2) :
           result.records[1].fields[1].subfields[2 * k] = <<>>
    /\ SubfieldDataOf(text)[Len(SubfieldDataOf(text))] = "$"

\* the text is one line "=TAG" + two-space separator + r, TAG a data-field tag
TwoSpaceDataLine(t) ==
    /\ Len(SplitLines(t)) = 1
    /\ LET line == SplitLines(t)[1] IN
       /\ TagMatch(line)
       /\ SubSeq(line, 2, 4) # LDR
       /\ ~StartsWith(SubSeq(line, 2, 4), <<"0", "0">>)
       /\ StartsWith(DropFirst(line, 4), <<" ", " ">>)

AfterSeparator(t) == DropFirst(SplitLines(t)[1], 6)

\* C6: on a data-field line the two indicators are the first two characters
\* after the tag and its (two-space) separator, and the decoder raises
\* MissingIndicators when fewer than two characters follow the separator.
C6_MissingIndicators ==
    TwoSpaceDataLine(text) =>
        /\ Len(AfterSeparator(text)) < 2 =>
               /\ pc # "returned"
               /\ pc = "raised" => raised = "MissingIndicators"
        /\ pc = "returned" =>
               result.records[1].fields[1].indicators
                   = <<AfterSeparator(text)[1], AfterSeparator(text)[2]>>

NoTrailingWhitespace(line) == line = RStrip(line)

\* the lines a list of records is written as, before any stripping: per
\* record the leader line and one line per field, one blank line in between
RECURSIVE ShapeLines(_)
ShapeLines(recs) ==
    IF recs = <<>> THEN <<>>
    ELSE LET r == Head(recs)
             own == <<LeaderLine(r)>> \o [i \in 1..Len(r.fields) |-> FieldLine(r.fields[i])]
         IN IF Len(recs) = 1 THEN own ELSE own \o << <<>> >> \o ShapeLines(Tail(recs))

\* C7 as stated: no line of the encoder's output has trailing whitespace.
C7_NoTrailingWhitespace ==
    (inRecords # <<>> /\ pc # "write_mrk") =>
        \A i \in 1..Len(SplitLines(text)) : NoTrailingWhitespace(SplitLines(text)[i])

\* the text t is the lines of recs with only its end stripped
WrittenShape(recs, t) ==
    LET lines == SplitLines(t)
        shape == ShapeLines(recs)
    IN IF recs = <<>> THEN t = <<"\n">>
       ELSE /\ t[Len(t)] = "\n"
            /\ t[Len(t) - 1] \notin Whitespace
            /\ Len(lines) = Len(shape)
            /\ \A i \in 1..(Len(shape) - 1) : lines[i] = shape[i]
            /\ lines[Len(shape)] = RStrip(shape[Len(shape)])

\* C7 amended: the encoder strips trailing whitespace from the end of the
\* whole output only, which then ends with one newline: every line but the
\* last is written as it is, trailing whitespace included, and the last line
\* is stripped; a record is its leader line followed by one line per field in
\* field order, and consecutive records are separated by exactly one blank
\* line.  (An empty list is written as a single newline.)
C7_StrippedAtEndOnly == [][WriteRecordsMrk => WrittenShape(inRecords, text')]_vars

\* two records were written and a line before the last kept its trailing blanks
C7_Witness ==
    /\ pc = "read_mrk"
    /\ Len(inRecords) = 2
    /\ \E i \in 1..(Len(SplitLines(text)) - 1) :
           /\ SplitLines(text)[i] # <<>>
           /\ ~NoTrailingWhitespace(SplitLines(text)[i])
    /\ NoTrailingWhitespace(SplitLines(text)[Len(SplitLines(text))])

(***************************************************************************)
(* Properties of detect_format                                             *)
(***************************************************************************)
SameLetter(c, l) == c = l \/ \E k \in 1..26 : LowerCase[k] = l /\ UpperCase[k] = c

\* the name ends in "." and the letters of e in any case, after a stem
HasExtension(n, e) ==
    /\ Len(n) > Len(e) + 1
    /\ n[Len(n) - Len(e)] = "."
    /\ \A i \in 1..Len(e) : SameLetter(n[Len(n) - Len(e) + i], e[i])

ExtensionTable ==
    {<<<<"x", "m", "l">>, "marcxml">>,
     <<<<"m", "r", "k">>, "mrk">>,
     <<<<"t", "x", "t">>, "mrk">>,
     <<<<"m", "r", "c">>, "mrc">>}

Recognised(n) == \E row \in ExtensionTable : HasExtension(n, row[1])

\* C8: a path whose suffix is .xml, .mrk, .txt or .mrc in any case gets
\* marcxml, mrk, mrk or mrc whatever the file holds, and the file is never
\* opened.
C8_ExtensionWins ==
    \A row \in ExtensionTable :
        HasExtension(name, row[1]) =>
            /\ ~opened
            /\ pc # "raised"
            /\ pc = "returned" => detected = row[2]

\* "a.XML" over a content the binary rule matches: marcxml, file not opened
C8_Witness ==
    /\ pc = "returned"
    /\ name = <<"a", ".", "X", "M", "L">>
    /\ content = <<"0", "0", "1", "2", "3", "4", "GS">>
    /\ detected = "marcxml"
    /\ ~opened

\* the sniffing rules, stated on the positions of the sample
SampleOf(bytes) == [i \in 1..(IF Len(bytes) < 2048 THEN Len(bytes) ELSE 2048) |-> bytes[i]]

TextOf(bytes) == Decode(SampleOf(bytes))

At(t, p, w) == p + Len(w) - 1 <= Len(t) /\ \A i \in 1..Len(w) : t[p + i - 1] = w[i]

XmlRule(t) ==
    \/ \E p \in 1..Len(t) : At(t, p, XML_DECL) /\ \A q \in 1..(p - 1) : t[q] \in Whitespace
    \/ \E p \in 1..Len(t) : At(t, p, RECORD_TAG) /\ p + 6 <= 500

MrcRule(b) ==
    /\ Len(b) >= 7
    /\ \A i \in 1..5 : b[i] \in Digits
    /\ "GS" \in {b[i] : i \in 1..Len(b)}

\* a line boundary ends at position q ("\r\n" counts once, at the "\n")
BoundaryAt(t, q) ==
    /\ t[q] \in LineBreaks
    /\ ~(t[q] = "\r" /\ q < Len(t) /\ t[q + 1] = "\n")

\* position p starts one of the first `n` lines
LineStart(t, p, n) ==
    /\ p = 1 \/ BoundaryAt(t, p - 1)
    /\ Cardinality({q \in 1..(p - 1) : BoundaryAt(t, q)}) < n

ThreeDigitsAt(t, p) ==
    /\ p + 3 <= Len(t)
    /\ t[p] = "="
    /\ \A i \in 1..3 : t[p + i] \in Digits

\* "=" followed by exactly 3 digits: no fourth digit follows
ExactlyThreeDigitsAt(t, p) ==
    /\ ThreeDigitsAt(t, p)
    /\ p + 4 <= Len(t) => t[p + 4] \notin Digits

MrkRuleExact(t) ==
    \E p \in 1..Len(t) :
        LineStart(t, p, 20) /\ (At(t, p, LDR_MARK) \/ ExactlyThreeDigitsAt(t, p))

MrkRulePrefix(t) ==
    \E p \in 1..Len(t) :
        LineStart(t, p, 20) /\ (At(t, p, LDR_MARK) \/ ThreeDigitsAt(t, p))

\* the outcome of sniffing, given which rules the sample matches
Sniffed(xml, mrc, mrk) ==
    /\ opened
    /\ xml => pc = "returned" /\ detected = "marcxml"
    /\ (~xml /\ mrc) => pc = "returned" /\ detected = "mrc"
    /\ (~xml /\ ~mrc /\ mrk) => pc = "returned" /\ detected = "mrk"
    /\ (~xml /\ ~mrc /\ ~mrk) => pc = "raised" /\ raised = UnknownFormat(name)

\* C9 as stated: with no recognised extension the first 2048 bytes decide,
\* (1) marcxml, (2) else mrc, (3) else mrk if one of the first 20 lines starts
\* with "=LDR" or is "=" followed by exactly 3 digits, (4) else the
\* unknown-format error naming the path.
C9_SniffingExact ==
    (~Recognised(name) /\ pc # "detect_format") =>
        Sniffed(XmlRule(TextOf(content)), MrcRule(SampleOf(content)),
                MrkRuleExact(TextOf(content)))

\* C9 amended: as stated, but rule (3) asks only that one of the first 20
\* lines starts with "=LDR" or with "=" and three digits, whatever follows
\* them (a fourth digit included).
C9_SniffingPrefix ==
    (~Recognised(name) /\ pc # "detect_format") =>
        Sniffed(XmlRule(TextOf(content)), MrcRule(SampleOf(content)),
                MrkRulePrefix(TextOf(content)))

\* a first line "=24500123": "=" and more than three digits, detected as mrk
C9_Witness ==
    /\ pc = "returned"
    /\ ~Recognised(name)
    /\ content = <<"=", "2", "4", "5", "0", "0", "1", "2", "3">>
    /\ detected = "mrk"
    /\ opened

(***************************************************************************)
(* Properties of cmd_split                                                 *)
(***************************************************************************)
ChunksOf(fs) == Concat([k \in 1..Len(fs) |-> fs[k].records])

CeilDiv(n, d) == (n + d - 1) \div d

ThreeDigits(k) ==
    <<DigitChars[(k \div 100) + 1], DigitChars[((k \div 10) % 10) + 1], DigitChars[(k % 10) + 1]>>

\* C10: for n >= 0 records and a chunk size every >= 1 a split that completes
\* has written ceil(n / every) files numbered part001, part002, ... in order,
\* each but the last of `every` records and the last of 1..every, and the
\* chunks in file order make up the input list.
C10_Chunking ==
    every >= 1 =>
        /\ pc = "split_loop" =>
               ChunksOf(files) = SubSeq(result.records, 1,
                                        IF start < Len(result.records)
                                        THEN start ELSE Len(result.records))
        /\ (pc = "exit" /\ ret = 0) =>
               LET n == Len(result.records) IN
               /\ Len(files) = CeilDiv(n, every)
               /\ \A k \in 1..Len(files) : files[k].name.part = ThreeDigits(k)
               /\ \A k \in 1..(Len(files) - 1) : Len(files[k].records) = every
               /\ Len(files) > 0 =>
                      /\ Len(files[Len(files)].records) >= 1
                      /\ Len(files[Len(files)].records) <= every
               /\ ChunksOf(files) = result.records

\* 5 records with every = 2: three files of 2, 2 and 1 records
C10_Witness ==
    /\ pc = "exit"
    /\ ret = 0
    /\ every = 2
    /\ result.records = <<1, 2, 3, 4, 5>>
    /\ Len(files) = 3
    /\ files[1].records = <<1, 2>>
    /\ files[2].records = <<3, 4>>
    /\ files[3].records = <<5>>
    /\ files[3].name.part = <<"0", "0", "3">>

(***************************************************************************)
(* Properties of cmd_merge                                                 *)
(***************************************************************************)
RECURSIVE SumDropped(_)
SumDropped(ins) == IF ins = <<>> THEN 0 ELSE Head(ins).res.dropped + SumDropped(Tail(ins))

\* the records of F1, then F2, ..., then Fk, each in its file's order
RecordsOf(ins) == Concat([k \in 1..Len(ins) |-> ins[k].res.records])

WarningsOf(ins) == Concat([k \in 1..Len(ins) |-> ins[k].res.warnings])

SomeReadFails(ins) == \E k \in 1..Len(ins) : ~ins[k].ok

NothingWritten == output \in {NoFile, OldFile} /\ inRecords = <<>> /\ consumed = 0

\* C11: cmd_merge hands write_records the records of its inputs concatenated
\* in argument order, each file's order kept; the done event reports the sum
\* of the inputs' dropped counts and their warnings concatenated in the same
\* order; if reading any input fails, nothing is written to the output and
\* the command returns 1.
C11_Concatenation ==
    /\ pc = "merge_loop" =>
           /\ all_records = RecordsOf(SubSeq(inputs, 1, idx))
           /\ warnings = WarningsOf(SubSeq(inputs, 1, idx))
           /\ dropped = SumDropped(SubSeq(inputs, 1, idx))
           /\ NothingWritten
    /\ (pc = "exit" /\ inRecords # <<>>) => inRecords = RecordsOf(inputs)
    /\ (pc = "exit" /\ ret = 0) =>
           /\ ~SomeReadFails(inputs)
           /\ inRecords = RecordsOf(inputs)
           /\ output = Written(argTo, RecordsOf(inputs))
           /\ LET done == events[Len(events)] IN
              /\ done.event = "done"
              /\ done.records = Len(RecordsOf(inputs))
              /\ done.dropped = SumDropped(inputs)
              /\ done.warnings = WarningsOf(inputs)
    /\ SomeReadFails(inputs) =>
           /\ NothingWritten
           /\ pc = "exit" => ret = 1 /\ events[Len(events)].event = "error"
           /\ ~(pc = "merge_loop" /\ idx = Len(inputs))

\* a 2-record A with one drop and a 3-record B with one drop were merged
C11_Witness ==
    /\ pc = "exit"
    /\ ret = 0
    /\ inputs = <<ReadOk(FileResult(1, 2, 1)), ReadOk(FileResult(2, 3, 1))>>
    /\ output.records = <<<<1, 1>>, <<1, 2>>, <<2, 1>>, <<2, 2>>, <<2, 3>>>>
    /\ events[Len(events)].dropped = 2
    /\ events[Len(events)].warnings = <<Warning(3, "Empty record"), Warning(4, "Empty record")>>

(***************************************************************************)
(* Properties of read_records and write_records                            *)
(***************************************************************************)
\* the call in progress declares a format tag outside SUPPORTED_FORMATS
DeclaredUnsupported ==
    /\ fmtArg \notin SUPPORTED_FORMATS
    /\ pc = "write_records" \/ (pc = "read_records" /\ fmtArg # "")

\* C12: for every declared format tag outside {mrc, mrk, marcxml} the call
\* of read_records or write_records raises the unsupported-format error, and
\* its step leaves the file at the path as it was (not opened, not read, not
\* created, not truncated) and takes no item from the records iterable.
C12_FailsFast ==
    /\ [](fmtArg \notin (SUPPORTED_FORMATS \cup {""}) => pc # "returned")
    /\ [][DeclaredUnsupported =>
              /\ pc' = "raised"
              /\ raised' = Unsupported(fmtArg)
              /\ opened' = opened /\ ~opened'
              /\ content' = content
              /\ output' = output
              /\ consumed' = consumed /\ consumed' = 0
              /\ result' = NoResult]_vars

\* write_records with the tag "pdf" raised: the earlier file at the path is
\* as it was and none of the two records was taken
C12_Witness ==
    /\ pc = "raised"
    /\ raised = Unsupported("pdf")
    /\ fmtArg = "pdf"
    /\ inRecords = <<<<1, 1>>, <<1, 2>>>>
    /\ output = OldFile
    /\ consumed = 0

(***************************************************************************)
(* Properties of the commands' event stream                                *)
(***************************************************************************)
Terminal == {"done", "error"}

Last(es) == es[Len(es)]

\* the shape of the event stream and of the return value
EventOrder ==
    /\ events # <<>> => events[1].event = "start"
    /\ \A i \in 2..Len(events) : events[i].event # "start"
    /\ \A i \in 1..(Len(events) - 1) : events[i].event \notin Terminal
    /\ pc = "exit" =>
           /\ Len(events) >= 2
           /\ Last(events).event \in Terminal
           /\ ret \in {0, 1}
           /\ ret = 0 <=> Last(events).event = "done"
           /\ ret = 1 <=> Last(events).event = "error"
    /\ pc # "exit" =>
           /\ ret = -1
           /\ events # <<>> => Last(events).event \notin Terminal

\* C13: in every run of cmd_count, cmd_split, cmd_merge and cmd_convert no
\* exception leaves the command (a run ends by returning); the first event
\* is start and no later one is; a terminal event (done or error) is emitted
\* exactly once, as the last event, when the command returns; and the
\* command returns 0 with done and 1 with error.
C13_EventProtocol == pc # "crashed" /\ EventOrder

====
